---- MODULE Spec2Model ----
(***************************************************************************)
(* A model of cloudformation/cloudformation_diff.py: the canonicalizer     *)
(* get_json_or_yaml (SortedDict, quote_json), the parameter helpers and    *)
(* the three output_choice branches of main().                             *)
(*                                                                         *)
(* The module is Python 2 code (long, str.decode), so a plain dict is a    *)
(* CPython 2 hash table: its iteration order is the order of its slots,    *)
(* and the slot of a key depends on the key's hash and on the keys that    *)
(* were inserted before it.  The model keeps the table (PyDict), and the   *)
(* string hash is chosen in Init from a bounded family of hash functions.  *)
(* OrderedDict, SortedDict and serialized text keep insertion order; they  *)
(* are sequences of <<key, value>> pairs (OMap).                           *)
(*                                                                         *)
(* cfn_flip's to_json / to_yaml are an external library.  They are         *)
(* modelled as order- and type-preserving conversions: to_json reads YAML  *)
(* (of which JSON is a subset) and writes JSON, to_yaml reads JSON and     *)
(* writes YAML, and both raise on text they cannot read.                   *)
(***************************************************************************)
EXTENDS Integers, Sequences, FiniteSets, TLC

VARIABLES
    hash,            \* the interpreter's string hash: key -> Nat
    \* ---- one run of main() ----
    pc,              \* "start" | "done"
    params,          \* module.params
    local_template,  \* contents of the template file (text)
    aws,             \* what the CloudFormation service answers
    merged_params,   \* local_params after the merge of line 410-411
    cloud_dict,      \* diff['before']
    local_dict,      \* diff['after']
    outcome,         \* "none" | "exit_json" | "fail_json" | "exception"
    changed,         \* result['changed'] (meaningful when outcome = "exit_json")
    \* ---- calls of get_json_or_yaml on their own ----
    cpc,             \* "init" | "done" | "permuted" | "retyped" | "again"
    data,            \* the input of the first call
    fmt,             \* output_format of the calls
    res,             \* what the first call returned (or raised)
    data2,           \* the input of the second call
    res2             \* what the second call returned (or raised)

mainVars == <<pc, params, local_template, aws, merged_params, cloud_dict,
              local_dict, outcome, changed>>
canonVars == <<cpc, data, fmt, res, data2, res2>>
vars == <<hash, mainVars, canonVars>>

----------------------------------------------------------------------------
(* Python values.  Every kind has its own payload field, so that values of *)
(* different kinds are different records.                                  *)

PyInt(n)    == [t |-> "int", i |-> n]
PyStr(s)    == [t |-> "str", s |-> s]
PyBool(b)   == [t |-> "bool", b |-> b]
PyFloat(n)  == [t |-> "float", tenths |-> n]      \* n tenths: 15 is 1.5
PyList(xs)  == [t |-> "list", l |-> xs]
PyDict(sl)  == [t |-> "dict", d |-> sl]           \* plain dict: a hash table
OMap(ps)    == [t |-> "omap", o |-> ps]           \* OrderedDict / a mapping in text
None        == [t |-> "none"]
Text(sy, x) == [t |-> "text", syntax |-> sy, doc |-> x]
Raise(e)    == [t |-> "raise", e |-> e]

IsRaise(x) == x.t = "raise"
IsScalar(x) == x.t \in {"int", "str", "bool", "float", "none"}

(* Every key the model uses, in the order Python 2 sorts strings (by code  *)
(* point: upper case before lower case).                                   *)
KeyOrder == <<"A", "B", "Default", "Description", "Env", "Key", "NoEcho",
              "Parameters", "Resources", "Tags", "Token", "Type", "Value",
              "a", "b">>
AllKeys == {KeyOrder[i] : i \in DOMAIN KeyOrder}
KeyRank(k) == CHOOSE i \in DOMAIN KeyOrder : KeyOrder[i] = k

----------------------------------------------------------------------------
(* The CPython 2 dict (Objects/dictobject.c), for the tables of up to five *)
(* entries the model builds: PyDict_MINSIZE slots, no resize.              *)

TableSize == 8
PerturbShift == 5

MaxMul == 1
MaxAdd == 3
(* The family of string hashes the runs are checked under.  Mul = 0 makes  *)
(* all keys collide; Add chooses where the probe sequence starts.          *)
HashFunctions ==
    { [k \in AllKeys |-> KeyRank(k) * m + c] : m \in 0..MaxMul, c \in 0..MaxAdd }

EmptySlots == [i \in 1..TableSize |-> <<>>]

RECURSIVE Pow2(_)
Pow2(n) == IF n = 0 THEN 1 ELSE 2 * Pow2(n - 1)

(* lookdict: the slot (1-based) where key k is, or where it goes.  i is    *)
(* the running index, of which only i & mask is used.                      *)
RECURSIVE lookdict(_, _, _, _)
lookdict(slots, k, i, perturb) ==
    LET e == slots[(i % TableSize) + 1]
    IN  IF Len(e) = 0 \/ e[1] = k
        THEN (i % TableSize) + 1
        ELSE lookdict(slots, k, (5 * i + perturb + 1) % TableSize,
                      perturb \div Pow2(PerturbShift))

(* d[k] = v *)
DictSetItem(slots, k, v) ==
    [slots EXCEPT ![lookdict(slots, k, hash[k] % TableSize, hash[k])] = <<k, v>>]

(* d.items(): the entries in slot order *)
DictItems(slots) == SelectSeq(slots, LAMBDA e : Len(e) > 0)

DictKeys(slots) == {slots[i][1] : i \in {j \in 1..TableSize : Len(slots[j]) > 0}}

DictGet(slots, k) ==
    LET e == slots[lookdict(slots, k, hash[k] % TableSize, hash[k])]
    IN  IF Len(e) = 0 THEN None ELSE e[2]

(* d.pop(k, None): the entry is removed, the other entries stay in place *)
DictPop(slots, k) ==
    [i \in 1..TableSize |->
        IF Len(slots[i]) > 0 /\ slots[i][1] = k THEN <<>> ELSE slots[i]]

(* d.update(pairs) / dict(pairs): one insertion per pair, in order *)
RECURSIVE DictUpdate(_, _)
DictUpdate(slots, pairs) ==
    IF Len(pairs) = 0 THEN slots
    ELSE DictUpdate(DictSetItem(slots, pairs[1][1], pairs[1][2]), Tail(pairs))

DictFromPairs(pairs) == DictUpdate(EmptySlots, pairs)

----------------------------------------------------------------------------
(* json and cfn_flip                                                       *)

(* The entries of a mapping of either kind, in iteration order *)
Items(x) == IF x.t = "dict" THEN DictItems(x.d) ELSE x.o

IsMapping(x) == x.t \in {"dict", "omap"}

(* json.dumps: the text lists a mapping's entries in iteration order and   *)
(* keeps the JSON type of every scalar.                                    *)
RECURSIVE JsonDumps(_)
JsonDumps(x) ==
    IF IsMapping(x)
    THEN LET ps == Items(x)
         IN  OMap([i \in 1..Len(ps) |-> <<ps[i][1], JsonDumps(ps[i][2])>>])
    ELSE IF x.t = "list"
    THEN PyList([i \in 1..Len(x.l) |-> JsonDumps(x.l[i])])
    ELSE x

json_dumps(x) == Text("json", JsonDumps(x))

(* json.loads: every object becomes a plain dict, filled in text order *)
RECURSIVE JsonLoads(_)
JsonLoads(x) ==
    IF x.t = "omap"
    THEN PyDict(DictFromPairs(
             [i \in 1..Len(x.o) |-> <<x.o[i][1], JsonLoads(x.o[i][2])>>]))
    ELSE IF x.t = "list"
    THEN PyList([i \in 1..Len(x.l) |-> JsonLoads(x.l[i])])
    ELSE x

json_loads(text) == JsonLoads(text.doc)

(* cfn_flip.to_json: YAML (or JSON) text to JSON text *)
to_json(text) ==
    IF text.t = "text" /\ text.syntax \in {"json", "yaml"}
    THEN Text("json", text.doc)
    ELSE Raise("ValueError")

(* cfn_flip.to_yaml: JSON text to YAML text *)
to_yaml(text) ==
    IF text.t = "text" /\ text.syntax = "json"
    THEN Text("yaml", text.doc)
    ELSE Raise("ValueError")

----------------------------------------------------------------------------
(* SortedDict.__init__: the keyword arguments sorted by key; a value that  *)
(* is a dict becomes a SortedDict, any other value (a list too) is stored  *)
(* as it is.                                                               *)
SortedKeys(slots) == SelectSeq(KeyOrder, LAMBDA k : k \in DictKeys(slots))

RECURSIVE SortedDict(_)
SortedDict(kwargs) ==
    LET ks == SortedKeys(kwargs.d)
    IN  OMap([i \in 1..Len(ks) |->
                LET value == DictGet(kwargs.d, ks[i])
                IN  <<ks[i], IF IsMapping(value) THEN SortedDict(value) ELSE value>>])

(* str(obj) for the scalars quote_json converts *)
IntStr(n) == <<"0", "1", "2", "3", "4", "5", "6", "7", "8", "9">>[n + 1]
FloatStr(n) == IF n = 15 THEN "1.5" ELSE IF n = 10 THEN "1.0" ELSE "2.5"
str(obj) ==
    IF obj.t = "int" THEN PyStr(IntStr(obj.i))
    ELSE IF obj.t = "bool" THEN PyStr(IF obj.b THEN "True" ELSE "False")
    ELSE IF obj.t = "float" THEN PyStr(FloatStr(obj.tenths))
    ELSE obj

(* quote_json.  json.loads returns unicode strings, which are none of the  *)
(* listed types and are returned as they are, like None.  A mapping is     *)
(* rebuilt as a plain dict, filled in the mapping's iteration order.       *)
RECURSIVE quote_json(_)
quote_json(obj) ==
    IF obj.t \in {"bool", "int", "float"} THEN str(obj)
    ELSE IF obj.t = "list"
    THEN PyList([i \in 1..Len(obj.l) |-> quote_json(obj.l[i])])
    ELSE IF IsMapping(obj)
    THEN LET ps == Items(obj)
         IN  PyDict(DictFromPairs(
                 [i \in 1..Len(ps) |-> <<ps[i][1], quote_json(ps[i][2])>>]))
    ELSE obj

(* ParseToJson with the failure of both attempts swallowed into an empty   *)
(* document                                                                *)
ParseToJson_empty(text) ==
    IF text.t = "text" /\ text.syntax \in {"json", "yaml"}
    THEN Text("json", text.doc)
    ELSE Text("json", OMap(<<>>))

(* get_json_or_yaml, lines 271-276: to_json, and on ValueError to_yaml     *)
(* followed by to_json.  A failure of the second attempt propagates.       *)
ParseToJson(text) ==
    LET first == to_json(text)
    IN  IF ~IsRaise(first) THEN first
        ELSE LET second == to_yaml(text)
             IN  IF IsRaise(second) THEN second ELSE to_json(second)

(* get_json_or_yaml with a document that is not a mapping passed through   *)
get_json_or_yaml_passthrough(input, output_format) ==
    LET text == IF IsMapping(input) THEN json_dumps(input) ELSE input
        json == ParseToJson(text)
    IN  IF IsRaise(json) THEN json
        ELSE LET loaded == json_loads(json)
                 quoted == IF loaded.t = "dict"
                           THEN quote_json(SortedDict(loaded))
                           ELSE quote_json(loaded)
             IN  IF output_format = "yaml"
                 THEN to_yaml(json_dumps(quoted))
                 ELSE quoted

(* get_json_or_yaml.  Line 283 unpacks data as keyword arguments, which    *)
(* raises TypeError when data is not a mapping.                            *)
get_json_or_yaml(input, output_format) ==
    LET text == IF IsMapping(input) THEN json_dumps(input) ELSE input
        json == ParseToJson(text)
    IN  IF IsRaise(json) THEN json
        ELSE LET loaded == json_loads(json)
             IN  IF loaded.t # "dict" THEN Raise("TypeError")
                 ELSE LET quoted == quote_json(SortedDict(loaded))
                      IN  IF output_format = "yaml"
                          THEN to_yaml(json_dumps(quoted))
                          ELSE quoted

(* Python's == on the values main() compares: dicts by key and value,      *)
(* whatever their order; lists element by element; text and scalars by     *)
(* value.                                                                  *)
RECURSIVE PyEq(_, _)
PyEq(x, y) ==
    IF x.t # y.t THEN FALSE
    ELSE IF x.t = "dict"
    THEN /\ DictKeys(x.d) = DictKeys(y.d)
         /\ \A k \in DictKeys(x.d) : PyEq(DictGet(x.d, k), DictGet(y.d, k))
    ELSE IF x.t = "list"
    THEN /\ Len(x.l) = Len(y.l)
         /\ \A i \in 1..Len(x.l) : PyEq(x.l[i], y.l[i])
    ELSE x = y

----------------------------------------------------------------------------
(* CloudFormationServiceManager                                            *)

(* describe_stack with the fail_json of line 147 in place *)
describe_stack_fail(service) ==
    IF service.describe \in {"error", "empty"} THEN Raise("fail_json")
    ELSE [t |-> "stack", Parameters |-> service.Parameters, Tags |-> service.Tags]

(* describe_stack: the first stack of the response; fail_json when the     *)
(* response is empty; dict() when the call raises.                         *)
describe_stack(service) ==
    IF service.describe = "error" THEN PyDict(EmptySlots)
    ELSE IF service.describe = "empty" THEN Raise("fail_json")
    ELSE [t |-> "stack", Parameters |-> service.Parameters, Tags |-> service.Tags]

(* get_template: the TemplateBody of the response; dict() when the call    *)
(* raises.                                                                 *)
get_template(service) ==
    IF service.get_template = "error" THEN PyDict(EmptySlots)
    ELSE service.TemplateBody

(* cloud_data.get(key, []) *)
StackGet(cloud_data, key) ==
    IF cloud_data.t = "stack" THEN cloud_data[key] ELSE <<>>

(* to_dict(items, key, value): dict(zip(keys, values)).  A list of         *)
(* {key: k, value: v} items is the sequence of its <<k, v>>.               *)
to_dict(items) == PyDict(DictFromPairs(items))

----------------------------------------------------------------------------
(* The parameter helpers                                                   *)

(* unicode.lower() on the flag values the model uses *)
Lower(s) ==
    IF s \in {"True", "TRUE", "true"} THEN "true"
    ELSE IF s \in {"False", "false"} THEN "false"
    ELSE s

Truthy(items) == items.t = "dict" /\ DictKeys(items.d) # {}

(* cfn_get_noecho_param_names without the lower() *)
cfn_get_noecho_param_names_exact(items) ==
    IF Truthy(items)
    THEN LET hidden == SelectSeq(DictItems(items.d),
                 LAMBDA e : /\ "NoEcho" \in DictKeys(e[2].d)
                            /\ str(DictGet(e[2].d, "NoEcho")).s = "true")
         IN  [i \in 1..Len(hidden) |-> hidden[i][1]]
    ELSE <<>>

(* cfn_get_noecho_param_names: the names, in iteration order, of the       *)
(* declarations that have a NoEcho whose lower-cased string is "true".     *)
cfn_get_noecho_param_names(items) ==
    IF Truthy(items)
    THEN LET hidden == SelectSeq(DictItems(items.d),
                 LAMBDA e : /\ "NoEcho" \in DictKeys(e[2].d)
                            /\ Lower(str(DictGet(e[2].d, "NoEcho")).s) = "true")
         IN  [i \in 1..Len(hidden) |-> hidden[i][1]]
    ELSE <<>>

(* cfn_get_default_value_params: {name: Default} of the declarations that  *)
(* have a Default.                                                         *)
cfn_get_default_value_params(items) ==
    IF Truthy(items)
    THEN LET defs == SelectSeq(DictItems(items.d),
                 LAMBDA e : "Default" \in DictKeys(e[2].d))
         IN  PyDict(DictFromPairs(
                 [i \in 1..Len(defs) |-> <<defs[i][1], DictGet(defs[i][2].d, "Default")>>]))
    ELSE PyDict(EmptySlots)

(* the merge the other way round: the defaults overwrite what was supplied *)
MergeParams_defaults_win(templ_def_params, param_params) ==
    PyDict(DictUpdate(DictFromPairs(DictItems(param_params.d)),
                      DictItems(templ_def_params.d)))

(* lines 410-411: local_params = templ_def_params.copy();                  *)
(* local_params.update(param_params)                                       *)
MergeParams(templ_def_params, param_params) ==
    PyDict(DictUpdate(DictFromPairs(DictItems(templ_def_params.d)),
                      DictItems(param_params.d)))

(* the redaction dropping every parameter once there is a hidden one *)
PopAll_clear(dict, keys) ==
    IF Len(keys) = 0 THEN dict ELSE PyDict(EmptySlots)

(* lines 416-418: for key in hidden_params: d.pop(key, None) *)
RECURSIVE PopAll(_, _)
PopAll(dict, keys) ==
    IF Len(keys) = 0 THEN dict
    ELSE PopAll(PyDict(DictPop(dict.d, keys[1])), Tail(keys))

----------------------------------------------------------------------------
(* main(): the three output_choice branches.  Each gives                   *)
(* [cloud, local, merged]; a value that is a Raise is an exception that    *)
(* nothing in main() catches.                                              *)

Branch(cloud, local, merged) == [cloud |-> cloud, local |-> local, merged |-> merged]

(* the template branch with ignore_template_desc not honoured *)
TemplateBranch_keep_description(cloud_template, local_text, ignore_template_desc, output_format) ==
    LET c == get_json_or_yaml(cloud_template, output_format)
    IN  IF IsRaise(c) THEN Branch(c, None, None)
        ELSE Branch(c, get_json_or_yaml(local_text, output_format), None)

(* lines 364-379 *)
TemplateBranch(cloud_template, local_text, ignore_template_desc, output_format) ==
    IF ignore_template_desc
    THEN LET c == get_json_or_yaml(cloud_template, "json")
             l == get_json_or_yaml(local_text, "json")
         IN  IF IsRaise(c) THEN Branch(c, None, None)
             ELSE IF IsRaise(l) THEN Branch(None, l, None)
             ELSE Branch(
                 get_json_or_yaml(PyDict(DictPop(c.d, "Description")), output_format),
                 get_json_or_yaml(PyDict(DictPop(l.d, "Description")), output_format),
                 None)
    ELSE LET c == get_json_or_yaml(cloud_template, output_format)
         IN  IF IsRaise(c) THEN Branch(c, None, None)
             ELSE Branch(c, get_json_or_yaml(local_text, output_format), None)

(* lines 399-422 *)
ParameterBranch(cloud_params, local_params, local_text, ignore_hidden_params, output_format) ==
    LET param_params == get_json_or_yaml(local_params, "json")
        template == get_json_or_yaml(local_text, "json")
    IN  IF IsRaise(template) THEN Branch(None, template, None)
        ELSE
        LET templ_params == DictGet(template.d, "Parameters")
            merged == MergeParams(cfn_get_default_value_params(templ_params),
                                  param_params)
            hidden_params == cfn_get_noecho_param_names(templ_params)
            locals == IF ignore_hidden_params
                      THEN PopAll(merged, hidden_params) ELSE merged
            clouds == IF ignore_hidden_params
                      THEN PopAll(get_json_or_yaml(cloud_params, "json"), hidden_params)
                      ELSE cloud_params
        IN  Branch(get_json_or_yaml(clouds, output_format),
                   get_json_or_yaml(locals, output_format),
                   merged)

(* lines 425-428 *)
TagsBranch(cloud_tags, local_tags, output_format) ==
    Branch(get_json_or_yaml(cloud_tags, output_format),
           get_json_or_yaml(local_tags, output_format),
           None)

(* lines 347-353 and 359-428 *)
Compute ==
    LET cloud_data == describe_stack(aws)
    IN  IF IsRaise(cloud_data) THEN Branch(cloud_data, None, None)
        ELSE
        LET cloud_template == get_template(aws)
            cloud_params == to_dict(StackGet(cloud_data, "Parameters"))
            cloud_tags == to_dict(StackGet(cloud_data, "Tags"))
        IN  IF params.output_choice = "template"
            THEN TemplateBranch(cloud_template, local_template,
                                params.ignore_template_desc, params.output_format)
            ELSE IF params.output_choice = "parameter"
            THEN ParameterBranch(cloud_params, to_dict(params.template_parameters),
                                 local_template, params.ignore_hidden_params,
                                 params.output_format)
            ELSE TagsBranch(cloud_tags, to_dict(params.template_tags),
                            params.output_format)

----------------------------------------------------------------------------
(* The inputs of a run                                                     *)

(* Text that is neither JSON nor YAML *)
InvalidText == Text("invalid", None)

(* An ordered mapping of the entries whose value is given (not None) *)
Present(pairs) == OMap(SelectSeq(pairs, LAMBDA e : e[2] # None))

TagItemKV == OMap(<< <<"Key", PyStr("k")>>, <<"Value", PyStr("v")>> >>)
TagItemVK == OMap(<< <<"Value", PyStr("v")>>, <<"Key", PyStr("k")>> >>)
ResourceChoices ==
    { None,
      OMap(<< <<"Tags", PyList(<<TagItemKV>>)>> >>),
      OMap(<< <<"Tags", PyList(<<TagItemVK>>)>> >>) }

DescriptionChoices == {None, PyStr("old"), PyStr("new")}

EnvDeclarations ==
    { None,
      OMap(<< <<"Type", PyStr("String")>> >>),
      OMap(<< <<"Type", PyStr("String")>>, <<"Default", PyStr("prod")>> >>) }

TokenDeclarations ==
    { None,
      OMap(<< <<"NoEcho", PyBool(TRUE)>> >>),
      OMap(<< <<"NoEcho", PyStr("TRUE")>>, <<"Default", PyInt(7)>> >>),
      OMap(<< <<"NoEcho", PyStr("false")>> >>) }

ParameterSections ==
    { IF env = None /\ tok = None THEN None
      ELSE Present(<< <<"Env", env>>, <<"Token", tok>> >>) :
        env \in EnvDeclarations, tok \in TokenDeclarations }

Template(description, parameters, resources) ==
    Present(<< <<"Description", description>>, <<"Parameters", parameters>>,
               <<"Resources", resources>> >>)

SampleParameters ==
    OMap(<< <<"Env", OMap(<< <<"Default", PyStr("prod")>> >>)>> >>)

(* templates of the template comparison *)
TemplateDocs ==
    {Template(d, None, r) : d \in DescriptionChoices, r \in ResourceChoices}
    \cup {Template(PyStr("old"), SampleParameters, None)}

(* templates of the parameter comparison *)
ParameterDocs == {Template(None, ps, None) : ps \in ParameterSections}

OptionalPairs(k, values) == {<<>>} \cup {<< <<k, v>> >> : v \in values}

(* template_parameters, as the pairs the dict was filled with *)
SuppliedParameters ==
    { e \o t : e \in OptionalPairs("Env", {PyStr("dev")}),
               t \in OptionalPairs("Token", {PyStr("realvalue")}) }

(* the Parameters of the stack: <<ParameterKey, ParameterValue>> *)
StackParameters ==
    { e \o t : e \in OptionalPairs("Env", {PyStr("prod"), PyStr("dev")}),
               t \in OptionalPairs("Token", {PyStr("****")}) }

TagSets ==
    { <<>>,
      << <<"A", PyInt(1)>>, <<"B", PyInt(2)>> >>,
      << <<"B", PyStr("2")>>, <<"A", PyStr("1")>> >>,
      << <<"A", PyStr("2")>> >> }

(* which of the two remote calls raise; describe_stack may also get an     *)
(* empty response                                                          *)
FetchOutcomes ==
    { <<"ok", "ok">>, <<"error", "ok">>, <<"ok", "error">>, <<"error", "error">>,
      <<"empty", "ok">>, <<"empty", "error">> }

Service(fetch, stack_parameters, stack_tags, body) ==
    [describe |-> fetch[1], get_template |-> fetch[2],
     Parameters |-> stack_parameters, Tags |-> stack_tags, TemplateBody |-> body]

ModuleParams(choice, format, parameters, tags, ignore_desc, ignore_hidden) ==
    [output_choice |-> choice, output_format |-> format,
     template_parameters |-> parameters, template_tags |-> tags,
     ignore_template_desc |-> ignore_desc, ignore_hidden_params |-> ignore_hidden]

Formats == {"json", "yaml"}

TemplateRuns ==
    /\ params \in { ModuleParams("template", f, <<>>, <<>>, i, FALSE) :
                      f \in Formats, i \in BOOLEAN }
    /\ local_template \in
          {Text(sy, d) : sy \in Formats, d \in TemplateDocs}
          \cup {InvalidText, Text("json", PyList(<<>>))}
    /\ aws \in { Service(fo, <<>>, <<>>, b) :
                   fo \in FetchOutcomes,
                   b \in TemplateDocs \cup {Text("yaml", Template(PyStr("new"), None, None))} }

ParameterRuns ==
    /\ params \in { ModuleParams("parameter", f, sp, <<>>, FALSE, i) :
                      f \in Formats, sp \in SuppliedParameters, i \in BOOLEAN }
    /\ local_template \in {Text("yaml", d) : d \in ParameterDocs} \cup {InvalidText}
    /\ aws \in { Service(fo, sp, <<>>, Template(None, None, None)) :
                   fo \in FetchOutcomes, sp \in StackParameters }

TagsRuns ==
    /\ params \in { ModuleParams("tags", f, <<>>, tg, FALSE, FALSE) :
                      f \in Formats, tg \in TagSets }
    /\ local_template \in {Text("yaml", Template(PyStr("old"), None, None)), InvalidText}
    /\ aws \in { Service(fo, <<>>, tg, Template(PyStr("old"), None, None)) :
                   fo \in FetchOutcomes, tg \in TagSets }

Init ==
    /\ hash \in HashFunctions
    /\ pc = "start"
    /\ \/ TemplateRuns
       \/ ParameterRuns
       \/ TagsRuns
    /\ merged_params = None
    /\ cloud_dict = None
    /\ local_dict = None
    /\ outcome = "none"
    /\ changed = FALSE
    /\ cpc = "idle"
    /\ data = None
    /\ fmt = "json"
    /\ res = None
    /\ data2 = None
    /\ res2 = None

(* lines 431-446: the diff, changed, exit_json; or the way the run ended   *)
(* without them.                                                           *)
Finish(b) ==
    IF IsRaise(b.cloud) \/ IsRaise(b.local)
    THEN /\ outcome' = (IF IsRaise(b.cloud) /\ b.cloud.e = "fail_json"
                        THEN "fail_json" ELSE "exception")
         /\ cloud_dict' = None
         /\ local_dict' = None
         /\ changed' = FALSE
         /\ merged_params' = None
    ELSE /\ outcome' = "exit_json"
         /\ cloud_dict' = b.cloud
         /\ local_dict' = b.local
         /\ changed' = ~PyEq(b.cloud, b.local)
         /\ merged_params' = b.merged

MainTemplate ==
    /\ pc = "start"
    /\ params.output_choice = "template"
    /\ Finish(Compute)
    /\ pc' = "done"
    /\ UNCHANGED <<hash, params, local_template, aws, canonVars>>

MainParameter ==
    /\ pc = "start"
    /\ params.output_choice = "parameter"
    /\ Finish(Compute)
    /\ pc' = "done"
    /\ UNCHANGED <<hash, params, local_template, aws, canonVars>>

MainTags ==
    /\ pc = "start"
    /\ params.output_choice = "tags"
    /\ Finish(Compute)
    /\ pc' = "done"
    /\ UNCHANGED <<hash, params, local_template, aws, canonVars>>

Next ==
    \/ MainTemplate
    \/ MainParameter
    \/ MainTags

Spec == Init /\ [][Next]_vars

----------------------------------------------------------------------------
(* Calls of get_json_or_yaml on their own: the documents                   *)

CanonLeaves == {PyInt(1), PyStr("1"), PyBool(TRUE), PyFloat(15)}

InnerMaps ==
    { OMap(<<>>),
      OMap(<< <<"a", PyInt(1)>> >>),
      OMap(<< <<"a", PyInt(1)>>, <<"b", PyInt(2)>> >>),
      OMap(<< <<"b", PyInt(2)>>, <<"a", PyInt(1)>> >>) }

ThreeKeyMap == OMap(<< <<"A", PyInt(1)>>, <<"a", PyInt(1)>>, <<"b", PyInt(2)>> >>)

CanonLists ==
    {PyList(<<>>), PyList(<<ThreeKeyMap>>)}
    \cup {PyList(<<x>>) : x \in CanonLeaves \cup InnerMaps}

CanonValues == CanonLeaves \cup InnerMaps \cup CanonLists

CanonDocs ==
    {OMap(<<>>)}
    \cup {OMap(<< <<"a", v>> >>) : v \in CanonValues}
    \cup {OMap(<< <<"a", v>>, <<"b", w>> >>) : v \in CanonValues, w \in CanonLeaves}
    \cup {OMap(<< <<"b", w>>, <<"a", v>> >>) : v \in CanonValues, w \in CanonLeaves}

(* Top-level documents that are not mappings *)
NonMappingDocs == {PyList(<<>>), PyList(<<PyInt(1)>>), PyInt(1), PyStr("1")}

CanonInputs ==
    {Text(sy, d) : sy \in {"json", "yaml"}, d \in CanonDocs \cup NonMappingDocs}
    \cup {InvalidText}

(* The documents that differ from x in the order of the keys of any of its *)
(* mappings and, with retype, in scalars written as their string form.     *)
RECURSIVE Variants(_, _), VariantSeqs(_, _)
Variants(x, retype) ==
    IF x.t = "omap"
    THEN { OMap([i \in 1..Len(x.o) |-> <<x.o[p[i]][1], c[p[i]]>>]) :
             p \in Permutations(1..Len(x.o)),
             c \in VariantSeqs([i \in 1..Len(x.o) |-> x.o[i][2]], retype) }
    ELSE IF x.t = "list"
    THEN { PyList(c) : c \in VariantSeqs(x.l, retype) }
    ELSE IF retype THEN {x, str(x)} ELSE {x}
VariantSeqs(xs, retype) ==
    IF Len(xs) = 0 THEN {<<>>}
    ELSE { <<h>> \o r : h \in Variants(Head(xs), retype),
                         r \in VariantSeqs(Tail(xs), retype) }

CanonInit ==
    /\ hash \in HashFunctions
    /\ cpc = "init"
    /\ data \in CanonInputs
    /\ fmt \in {"json", "yaml"}
    /\ res = None
    /\ data2 = None
    /\ res2 = None
    /\ pc = "idle"
    /\ params = None
    /\ local_template = None
    /\ aws = None
    /\ merged_params = None
    /\ cloud_dict = None
    /\ local_dict = None
    /\ outcome = "none"
    /\ changed = FALSE

(* get_json_or_yaml(data, fmt) *)
Canonicalize ==
    /\ cpc = "init"
    /\ res' = get_json_or_yaml(data, fmt)
    /\ cpc' = "done"
    /\ UNCHANGED <<hash, mainVars, data, fmt, data2, res2>>

(* the same call on the document with its keys in another order *)
CanonicalizePermuted ==
    /\ cpc = "done"
    /\ data.syntax # "invalid"
    /\ \E d \in Variants(data.doc, FALSE) :
          /\ data2' = Text(data.syntax, d)
          /\ res2' = get_json_or_yaml(Text(data.syntax, d), fmt)
    /\ cpc' = "permuted"
    /\ UNCHANGED <<hash, mainVars, data, fmt, res>>

(* the same call on the document with scalars written as strings, and its *)
(* keys in another order                                                   *)
CanonicalizeRetyped ==
    /\ cpc = "done"
    /\ data.syntax # "invalid"
    /\ \E d \in Variants(data.doc, TRUE) :
          /\ data2' = Text(data.syntax, d)
          /\ res2' = get_json_or_yaml(Text(data.syntax, d), fmt)
    /\ cpc' = "retyped"
    /\ UNCHANGED <<hash, mainVars, data, fmt, res>>

(* get_json_or_yaml(get_json_or_yaml(data, fmt), fmt) *)
Recanonicalize ==
    /\ cpc = "done"
    /\ ~IsRaise(res)
    /\ data2' = res
    /\ res2' = get_json_or_yaml(res, fmt)
    /\ cpc' = "again"
    /\ UNCHANGED <<hash, mainVars, data, fmt, res>>

CanonNext ==
    \/ Canonicalize
    \/ CanonicalizePermuted
    \/ CanonicalizeRetyped
    \/ Recanonicalize

SpecCanon == CanonInit /\ [][CanonNext]_vars

----------------------------------------------------------------------------
(* What the claims speak of, read from the inputs of the run               *)

Done == pc = "done"
Emitted == outcome = "exit_json"

OKeys(m) == {m.o[i][1] : i \in DOMAIN m.o}
OGet(m, k) == m.o[CHOOSE i \in DOMAIN m.o : m.o[i][1] = k][2]
OWithout(m, k) == OMap(SelectSeq(m.o, LAMBDA e : e[1] # k))

(* the string form of a scalar *)
StringForm(v) ==
    IF v.t = "int" THEN PyStr(CASE v.i = 1 -> "1" [] v.i = 2 -> "2" [] v.i = 7 -> "7")
    ELSE IF v.t = "bool" THEN PyStr(IF v.b THEN "True" ELSE "False")
    ELSE IF v.t = "float" THEN PyStr("1.5")
    ELSE v

(* the entries of an emitted side of the diff, in either format *)
Entries(x) ==
    IF x.t = "text" THEN {x.doc.o[i] : i \in DOMAIN x.doc.o}
    ELSE {e \in {x.d[i] : i \in DOMAIN x.d} : Len(e) > 0}

IsEmptyDocument(x) == Entries(x) = {}

LocalTemplateParses ==
    local_template.syntax \in Formats /\ local_template.doc.t = "omap"

Declarations ==
    IF LocalTemplateParses /\ "Parameters" \in OKeys(local_template.doc)
    THEN OGet(local_template.doc, "Parameters")
    ELSE OMap(<<>>)

DefaultNames ==
    {n \in OKeys(Declarations) : "Default" \in OKeys(OGet(Declarations, n))}

FlaggedNames == 
    {n \in OKeys(Declarations) : "NoEcho" \in OKeys(OGet(Declarations, n))}

SensitiveNames ==
    {n \in FlaggedNames :
        OGet(OGet(Declarations, n), "NoEcho")
            \in {PyBool(TRUE), PyStr("true"), PyStr("True"), PyStr("TRUE")}}

Supplied == params.template_parameters
SuppliedNames == {Supplied[i][1] : i \in DOMAIN Supplied}

(* defaults overlaid by the supplied entries *)
ExpectedLocal ==
    {<<Supplied[i][1], StringForm(Supplied[i][2])>> : i \in DOMAIN Supplied}
    \cup {<<n, StringForm(OGet(OGet(Declarations, n), "Default"))>> :
            n \in DefaultNames \ SuppliedNames}

(* what the stack reports, nothing when describe_stack raised *)
Remote ==
    IF aws.describe = "ok"
    THEN {<<aws.Parameters[i][1], StringForm(aws.Parameters[i][2])>> :
            i \in DOMAIN aws.Parameters}
    ELSE {}

Names(entries) == {e[1] : e \in entries}
Restrict(entries, names) == {e \in entries : e[1] \in names}

ParameterRunDone ==
    Done /\ Emitted /\ params.output_choice = "parameter"

----------------------------------------------------------------------------
(* C1: order-invariance of get_json_or_yaml: a document and the same       *)
(* document with the keys of any of its mappings (those inside lists too)  *)
(* in another order canonicalize to equal results, in json and in yaml.    *)
OrderInvariance == cpc = "permuted" => PyEq(res, res2)

(* C2: type-coercion: every scalar leaf of the result is a string, and two *)
(* documents that differ only in scalars written as their string form and  *)
(* in key order canonicalize to equal results (changed == false).          *)
RECURSIVE AllLeavesAreStrings(_)
AllLeavesAreStrings(x) ==
    IF x.t = "text" THEN AllLeavesAreStrings(x.doc)
    ELSE IF x.t = "omap"
    THEN \A i \in DOMAIN x.o : AllLeavesAreStrings(x.o[i][2])
    ELSE IF x.t = "dict"
    THEN \A e \in Entries(x) : AllLeavesAreStrings(e[2])
    ELSE IF x.t = "list"
    THEN \A i \in DOMAIN x.l : AllLeavesAreStrings(x.l[i])
    ELSE x.t = "str"

TypeCoercion ==
    /\ cpc = "done" /\ ~IsRaise(res) => AllLeavesAreStrings(res)
    /\ cpc = "retyped" => PyEq(res, res2)

(* C9: idempotence: get_json_or_yaml(get_json_or_yaml(d, f), f) equals     *)
(* get_json_or_yaml(d, f), for f json and yaml.                            *)
Idempotence == cpc = "again" => PyEq(res2, res)

(* What get_json_or_yaml has to return for document x when it comes back   *)
(* with no more change than scalars as strings.                            *)
Rendered(x, output_format) ==
    IF output_format = "yaml" THEN Text("yaml", x)
    ELSE IF x.t = "omap" THEN PyDict(EmptySlots) ELSE x

(* C8 as stated: an empty mapping, an empty sequence and a scalar at the   *)
(* top level all come back without error, the scalar as its string form.   *)
TopLevelPassThrough ==
    cpc = "done" /\ data.syntax \in Formats
        /\ data.doc \in {OMap(<<>>), PyList(<<>>), PyInt(1), PyStr("1")}
    => res = Rendered(StringForm(data.doc), fmt)

(* C8 amended: the top-level empty mapping comes back empty and without    *)
(* error; a top-level sequence or scalar makes the call raise TypeError.   *)
TopLevelMappingOnly ==
    cpc = "done" /\ data.syntax \in Formats =>
        /\ data.doc = OMap(<<>>) => res = Rendered(OMap(<<>>), fmt)
        /\ data.doc.t # "omap" => res = Raise("TypeError")

TopLevelSequenceRaises ==
    cpc = "done" /\ data.syntax \in Formats /\ data.doc = PyList(<<>>) /\ IsRaise(res)

----------------------------------------------------------------------------
(* C3: in parameter mode the local parameter set is the template's         *)
(* defaults overlaid by the supplied template_parameters, the supplied     *)
(* value winning; names with neither are absent.  It is the after side of  *)
(* the diff as it stands when no redaction is asked for.  A template whose *)
(* only parameter has the default the stack reports, with nothing          *)
(* supplied, gives changed == false.                                       *)
OnlyDefaultedParameter ==
    /\ aws.describe = "ok"
    /\ Supplied = <<>>
    /\ Cardinality(OKeys(Declarations)) = 1
    /\ DefaultNames = OKeys(Declarations)
    /\ Remote = ExpectedLocal

MergePrecedence ==
    ParameterRunDone =>
        /\ Entries(merged_params) = ExpectedLocal
        /\ ~params.ignore_hidden_params => Entries(local_dict) = ExpectedLocal
        /\ OnlyDefaultedParameter => ~changed

SuppliedOverridesDefault ==
    /\ ParameterRunDone
    /\ \E i \in DOMAIN Supplied :
          /\ Supplied[i][1] \in DefaultNames
          /\ OGet(OGet(Declarations, Supplied[i][1]), "Default") # Supplied[i][2]
          /\ <<Supplied[i][1], Supplied[i][2]>> \in Entries(local_dict)
    /\ DefaultNames \ SuppliedNames # {}

(* C4: in parameter mode, when the two parameter sets differ only in the   *)
(* values of parameters whose NoEcho flag, lower-cased, is "true", changed *)
(* is false with ignore_hidden_params and true without; a difference in a  *)
(* parameter that has no NoEcho flag always gives changed == true.         *)
HiddenOnlyDifference ==
    /\ aws.describe = "ok"
    /\ Names(Remote) = Names(ExpectedLocal)
    /\ Remote # ExpectedLocal
    /\ Restrict(Remote, Names(Remote) \ SensitiveNames)
         = Restrict(ExpectedLocal, Names(Remote) \ SensitiveNames)

NoEchoRedaction ==
    ParameterRunDone =>
        /\ HiddenOnlyDifference => (changed <=> ~params.ignore_hidden_params)
        /\ \A n \in (Names(Remote) \cup Names(ExpectedLocal)) \ FlaggedNames :
              Restrict(Remote, {n}) # Restrict(ExpectedLocal, {n}) => changed

HiddenDifferenceIgnored ==
    /\ ParameterRunDone
    /\ HiddenOnlyDifference
    /\ params.ignore_hidden_params
    /\ ~changed

(* C5: in template mode, when the two templates differ only in the value   *)
(* of the top-level Description, changed is false with                     *)
(* ignore_template_desc and true without, in json and in yaml.             *)
RemoteTemplate ==
    IF aws.TemplateBody.t = "text" THEN aws.TemplateBody.doc ELSE aws.TemplateBody

DescriptionOnlyDifference ==
    /\ aws.get_template = "ok"
    /\ LocalTemplateParses
    /\ "Description" \in OKeys(local_template.doc) \cap OKeys(RemoteTemplate)
    /\ OGet(local_template.doc, "Description") # OGet(RemoteTemplate, "Description")
    /\ OWithout(local_template.doc, "Description")
         = OWithout(RemoteTemplate, "Description")

IgnoreDescription ==
    Done /\ Emitted /\ params.output_choice = "template" /\ DescriptionOnlyDifference
    => (changed <=> ~params.ignore_template_desc)

DescriptionDifferenceIgnored ==
    /\ Done /\ Emitted /\ params.output_choice = "template"
    /\ DescriptionOnlyDifference
    /\ params.ignore_template_desc
    /\ params.output_format = "yaml"
    /\ OKeys(local_template.doc) # {"Description"}
    /\ ~changed

(* The fetch that feeds the chosen comparison raised: get_template in      *)
(* template mode, describe_stack in parameter and tags mode, with          *)
(* describe_stack not stopped by an empty response.                        *)
RelevantFetchFailed ==
    /\ aws.describe # "empty"
    /\ IF params.output_choice = "template"
       THEN aws.get_template = "error"
       ELSE aws.describe = "error"

LocalInputParses == params.output_choice = "tags" \/ LocalTemplateParses

(* C6 as stated, read in its favour (the fetch that feeds the chosen       *)
(* comparison raised, and nothing else stops the run): the run emits a     *)
(* diff whose remote side is empty and whose changed is true, in every     *)
(* mode.                                                                   *)
FetchFailureAlwaysChanged ==
    Done /\ RelevantFetchFailed /\ LocalInputParses
    => Emitted /\ IsEmptyDocument(cloud_dict) /\ changed

(* C6 amended: when the fetch that feeds the chosen comparison raised, a   *)
(* run whose local input parses emits a diff with an empty remote side and *)
(* changed true exactly when the local side is not empty; a run whose      *)
(* local input does not parse ends with the exception.                     *)
FetchFailureDegrades ==
    Done /\ RelevantFetchFailed =>
        IF LocalInputParses
        THEN /\ Emitted
             /\ IsEmptyDocument(cloud_dict)
             /\ changed <=> ~IsEmptyDocument(local_dict)
        ELSE outcome = "exception"

FetchFailedDiffEmitted ==
    /\ Done /\ RelevantFetchFailed /\ Emitted
    /\ IsEmptyDocument(cloud_dict)
    /\ changed

(* C7: when the text given to get_json_or_yaml is valid in neither format  *)
(* the failure propagates: the run ends in an error, with no diff and no   *)
(* changed flag, and no empty document stands in for the input.            *)
ParseFailurePropagates ==
    Done /\ local_template = InvalidText
         /\ params.output_choice \in {"template", "parameter"}
    => /\ outcome \in {"exception", "fail_json"}
       /\ aws.describe # "empty" => outcome = "exception"
       /\ cloud_dict = None
       /\ local_dict = None

InvalidTemplateEndsRun ==
    /\ Done /\ local_template = InvalidText
    /\ params.output_choice = "template"
    /\ aws.get_template = "ok"
    /\ outcome = "exception"

(* C10: with ignore_hidden_params, every parameter that is not flagged     *)
(* NoEcho in the local template keeps its name and value on both sides of  *)
(* the diff, and a difference in one of them gives changed == true.        *)
KeptNames == (Names(Remote) \cup Names(ExpectedLocal)) \ SensitiveNames

RedactionFrame ==
    ParameterRunDone /\ params.ignore_hidden_params =>
        /\ Restrict(Entries(cloud_dict), KeptNames) = Restrict(Remote, KeptNames)
        /\ Restrict(Entries(local_dict), KeptNames) = Restrict(ExpectedLocal, KeptNames)
        /\ Restrict(Remote, KeptNames) # Restrict(ExpectedLocal, KeptNames) => changed

RedactionKeepsOthers ==
    /\ ParameterRunDone /\ params.ignore_hidden_params
    /\ SensitiveNames \cap Names(ExpectedLocal) # {}
    /\ Restrict(ExpectedLocal, KeptNames) # {}
    /\ Restrict(Remote, KeptNames) # Restrict(ExpectedLocal, KeptNames)
    /\ changed

====
